---- MODULE Spec2Model ----
(***************************************************************************)
(* Model of cogs/pokemonquesthelper.py: the quest-line classifier          *)
(* (parse_quest), the dex-to-region function (get_region), the table       *)
(* loader (load_data) and the tier-major species search                    *)
(* (find_matching_pokemon) of the PokemonQuestHelper cog.                  *)
(*                                                                         *)
(* Python strings that the code scans character by character (quest lines, *)
(* keywords, species names) are modelled as sequences of one-character     *)
(* strings; chars[s] is the character sequence of the Python string s.     *)
(* Python's None is the value None.                                        *)
(***************************************************************************)
EXTENDS Integers, Sequences, FiniteSets, TLC

VARIABLES
    \* ---- the cog's fields (__init__, lines 25-27) and load_data's position
    pc,             \* "load_species" | "load_spawn" | "load_gender" | "ready" | "called"
    pokemon_data,   \* self.pokemon_data: the dict in insertion order, a sequence of species records
    spawn_rates,    \* self.spawn_rates: function dex -> chance label, on the loaded dex numbers
    gender_data,    \* self.gender_data: function gender -> set of species names
    gender_idx,     \* position of the loop over ['male','female','genderless'] in load_data
    load_failed,    \* TRUE once load_data's outer `except Exception` has run
    \* ---- one call of find_matching_pokemon
    fm_quest,       \* the quest_info argument, None when no call is in progress
    fm_limit,       \* the limit argument
    fm_result,      \* the returned list
    \* ---- one call of parse_quest
    pq_pc,          \* "idle" | "start" | "done"
    pq_text,        \* the quest_text argument, a sequence of characters
    pq_result,      \* the returned quest_info
    \* ---- one call of get_region
    gr_pc,          \* "idle" | "start" | "done"
    gr_dex,         \* the dex argument
    gr_result,      \* the returned region
    \* ---- on_message (lines 396-411)
    processed_messages, \* self.processed_messages: the set of message ids
    in_flight,      \* message id -> number of process_quest_embed calls awaited at line 411
    handled,        \* the latest on_message event: its id, whether the id was in
                    \* processed_messages when the event was handled, whether line 411 was reached
    delivered       \* number of on_message events so far

vars == <<pc, pokemon_data, spawn_rates, gender_data, gender_idx, load_failed,
          fm_quest, fm_limit, fm_result, pq_pc, pq_text, pq_result,
          gr_pc, gr_dex, gr_result,
          processed_messages, in_flight, handled, delivered>>

engineVars == <<pc, pokemon_data, spawn_rates, gender_data, gender_idx, load_failed,
                fm_quest, fm_limit, fm_result>>
parseVars  == <<pq_pc, pq_text, pq_result>>
regionVars == <<gr_pc, gr_dex, gr_result>>
messageVars == <<processed_messages, in_flight, handled, delivered>>

None == "<None>"

(***************************************************************************)
(* Strings                                                                 *)
(***************************************************************************)
chars ==
    "breed" :> <<"b","r","e","e","d">> @@
    "release" :> <<"r","e","l","e","a","s","e">> @@
    "female" :> <<"f","e","m","a","l","e">> @@
    "male" :> <<"m","a","l","e">> @@
    "unknown gender" :> <<"u","n","k","n","o","w","n"," ","g","e","n","d","e","r">> @@
    "genderless" :> <<"g","e","n","d","e","r","l","e","s","s">> @@
    "catch" :> <<"c","a","t","c","h">> @@
    "Kanto" :> <<"K","a","n","t","o">> @@
    "Johto" :> <<"J","o","h","t","o">> @@
    "Hoenn" :> <<"H","o","e","n","n">> @@
    "Sinnoh" :> <<"S","i","n","n","o","h">> @@
    "Unova" :> <<"U","n","o","v","a">> @@
    "Kalos" :> <<"K","a","l","o","s">> @@
    "Alola" :> <<"A","l","o","l","a">> @@
    "Galar" :> <<"G","a","l","a","r">> @@
    "Paldea" :> <<"P","a","l","d","e","a">> @@
    "Normal" :> <<"N","o","r","m","a","l">> @@
    "Fire" :> <<"F","i","r","e">> @@
    "Water" :> <<"W","a","t","e","r">> @@
    "Grass" :> <<"G","r","a","s","s">> @@
    "Electric" :> <<"E","l","e","c","t","r","i","c">> @@
    "Ice" :> <<"I","c","e">> @@
    "Fighting" :> <<"F","i","g","h","t","i","n","g">> @@
    "Poison" :> <<"P","o","i","s","o","n">> @@
    "Ground" :> <<"G","r","o","u","n","d">> @@
    "Flying" :> <<"F","l","y","i","n","g">> @@
    "Psychic" :> <<"P","s","y","c","h","i","c">> @@
    "Bug" :> <<"B","u","g">> @@
    "Rock" :> <<"R","o","c","k">> @@
    "Ghost" :> <<"G","h","o","s","t">> @@
    "Dragon" :> <<"D","r","a","g","o","n">> @@
    "Dark" :> <<"D","a","r","k">> @@
    "Steel" :> <<"S","t","e","e","l">> @@
    "Fairy" :> <<"F","a","i","r","y">> @@
    "-type" :> <<"-","t","y","p","e">> @@
    "alolan" :> <<"a","l","o","l","a","n">> @@
    "galarian" :> <<"g","a","l","a","r","i","a","n">> @@
    "hisuian" :> <<"h","i","s","u","i","a","n">> @@
    "paldean" :> <<"p","a","l","d","e","a","n">> @@
    "Omanyte" :> <<"O","m","a","n","y","t","e">> @@
    "Totodile" :> <<"T","o","t","o","d","i","l","e">> @@
    "Charmander" :> <<"C","h","a","r","m","a","n","d","e","r">> @@
    "Paldean Tauros" :> <<"P","a","l","d","e","a","n"," ","T","a","u","r","o","s">> @@
    "Catch " :> <<"C","a","t","c","h"," ">> @@
    "breed " :> <<"b","r","e","e","d"," ">> @@
    "Release " :> <<"R","e","l","e","a","s","e"," ">> @@
    "10 " :> <<"1","0"," ">> @@
    "Female " :> <<"F","e","m","a","l","e"," ">> @@
    "Male " :> <<"M","a","l","e"," ">> @@
    "Genderless " :> <<"G","e","n","d","e","r","l","e","s","s"," ">> @@
    "unknown gender " :> <<"u","n","k","n","o","w","n"," ","g","e","n","d","e","r"," ">> @@
    "Kanto " :> <<"K","a","n","t","o"," ">> @@
    "Johto " :> <<"J","o","h","t","o"," ">> @@
    "kanto " :> <<"k","a","n","t","o"," ">> @@
    "Water-type " :> <<"W","a","t","e","r","-","t","y","p","e"," ">> @@
    "fire " :> <<"f","i","r","e"," ">>

\* str.lower() on one character: A-Z map to a-z, anything else is unchanged.
upper_to_lower ==
    "A" :> "a" @@ "B" :> "b" @@ "C" :> "c" @@ "D" :> "d" @@ "E" :> "e" @@ "F" :> "f" @@ "G" :> "g" @@
    "H" :> "h" @@ "I" :> "i" @@ "J" :> "j" @@ "K" :> "k" @@ "L" :> "l" @@ "M" :> "m" @@ "N" :> "n" @@
    "O" :> "o" @@ "P" :> "p" @@ "Q" :> "q" @@ "R" :> "r" @@ "S" :> "s" @@ "T" :> "t" @@ "U" :> "u" @@
    "V" :> "v" @@ "W" :> "w" @@ "X" :> "x" @@ "Y" :> "y" @@ "Z" :> "z"

lower_char(c) == IF c \in DOMAIN upper_to_lower THEN upper_to_lower[c] ELSE c

\* str.lower()
lower(s) == [i \in 1..Len(s) |-> lower_char(s[i])]

\* Python's `needle in haystack` on strings: needle occurs as a contiguous substring.
contains(haystack, needle) ==
    \E i \in 1..(Len(haystack) - Len(needle) + 1) :
        \A k \in 1..Len(needle) : haystack[i + k - 1] = needle[k]

(***************************************************************************)
(* get_region (lines 77-97)                                                *)
(***************************************************************************)
\* lines 79-97 with line 81 reading 152 < dex
get_region_off_by_one(dex) ==
    IF 1 <= dex /\ dex <= 151 THEN "Kanto"
    ELSE IF 152 < dex /\ dex <= 251 THEN "Johto"
    ELSE IF 252 <= dex /\ dex <= 386 THEN "Hoenn"
    ELSE IF 387 <= dex /\ dex <= 493 THEN "Sinnoh"
    ELSE IF 494 <= dex /\ dex <= 649 THEN "Unova"
    ELSE IF 650 <= dex /\ dex <= 721 THEN "Kalos"
    ELSE IF 722 <= dex /\ dex <= 809 THEN "Alola"
    ELSE IF 810 <= dex /\ dex <= 905 THEN "Galar"
    ELSE IF 906 <= dex /\ dex <= 1025 THEN "Paldea"
    ELSE "Unknown"

get_region(dex) ==
    IF 1 <= dex /\ dex <= 151 THEN "Kanto"
    ELSE IF 152 <= dex /\ dex <= 251 THEN "Johto"
    ELSE IF 252 <= dex /\ dex <= 386 THEN "Hoenn"
    ELSE IF 387 <= dex /\ dex <= 493 THEN "Sinnoh"
    ELSE IF 494 <= dex /\ dex <= 649 THEN "Unova"
    ELSE IF 650 <= dex /\ dex <= 721 THEN "Kalos"
    ELSE IF 722 <= dex /\ dex <= 809 THEN "Alola"
    ELSE IF 810 <= dex /\ dex <= 905 THEN "Galar"
    ELSE IF 906 <= dex /\ dex <= 1025 THEN "Paldea"
    ELSE "Unknown"

(***************************************************************************)
(* parse_quest (lines 99-168)                                              *)
(***************************************************************************)
\* line 126
regions == <<"Kanto", "Johto", "Hoenn", "Sinnoh", "Unova", "Kalos", "Alola", "Galar", "Paldea">>

\* lines 134-136
types == <<"Normal", "Fire", "Water", "Grass", "Electric", "Ice", "Fighting", "Poison",
           "Ground", "Flying", "Psychic", "Bug", "Rock", "Ghost", "Dragon", "Dark",
           "Steel", "Fairy">>

\* A local variable that no executed statement has assigned.
Unbound == "<unbound>"

Least(S) == CHOOSE i \in S : \A j \in S : i <= j

\* lines 104-123 with the 'male' test placed before the 'female' test
keyword_branch_male_first(quest_text_lower) ==
    IF contains(quest_text_lower, chars["breed"])
    THEN [quest_type |-> "breed", gender |-> Unbound]
    ELSE IF contains(quest_text_lower, chars["release"])
    THEN [quest_type |-> "release", gender |-> Unbound]
    ELSE IF contains(quest_text_lower, chars["male"])
    THEN [quest_type |-> "gender", gender |-> "male"]
    ELSE IF contains(quest_text_lower, chars["female"])
    THEN [quest_type |-> "gender", gender |-> "female"]
    ELSE IF contains(quest_text_lower, chars["unknown gender"])
            \/ contains(quest_text_lower, chars["genderless"])
    THEN [quest_type |-> "gender", gender |-> "genderless"]
    ELSE [quest_type |-> None, gender |-> Unbound]

\* lines 104-123: the if/elif chain that sets quest_type and, in the gender
\* branches only, the local variable gender.
keyword_branch(quest_text_lower) ==
    IF contains(quest_text_lower, chars["breed"])
    THEN [quest_type |-> "breed", gender |-> Unbound]
    ELSE IF contains(quest_text_lower, chars["release"])
    THEN [quest_type |-> "release", gender |-> Unbound]
    ELSE IF contains(quest_text_lower, chars["female"])
    THEN [quest_type |-> "gender", gender |-> "female"]
    ELSE IF contains(quest_text_lower, chars["male"])
    THEN [quest_type |-> "gender", gender |-> "male"]
    ELSE IF contains(quest_text_lower, chars["unknown gender"])
            \/ contains(quest_text_lower, chars["genderless"])
    THEN [quest_type |-> "gender", gender |-> "genderless"]
    ELSE [quest_type |-> None, gender |-> Unbound]

\* lines 127-131: the first region of the list (list order, not text order)
\* whose name occurs, case-sensitively, in the line.
detect_region(quest_text) ==
    LET hits == {i \in 1..Len(regions) : contains(quest_text, chars[regions[i]])}
    IN  IF hits = {} THEN None ELSE regions[Least(hits)]

\* lines 137-141
detect_type(quest_text, quest_text_lower) ==
    LET hits == {i \in 1..Len(types) :
                    \/ contains(quest_text_lower, lower(chars[types[i]]))
                    \/ contains(quest_text, chars[types[i]] \o chars["-type"])}
    IN  IF hits = {} THEN None ELSE types[Least(hits)]

\* lines 144-150
final_quest_type(quest_type, has_region, has_type, quest_text_lower) ==
    IF quest_type # None THEN quest_type
    ELSE IF has_region # None \/ has_type # None THEN "type_region"
    ELSE IF contains(quest_text_lower, chars["catch"]) THEN "generic_catch"
    ELSE "unknown"

\* ---- line 154: re.search(r'(?:Catch|Release|Breed)\s+(\d+)', quest_text, re.IGNORECASE)
count_keywords == <<"catch", "release", "breed">>

is_space(c) == c \in {" ", "\t", "\n", "\r"}

digit_value == "0" :> 0 @@ "1" :> 1 @@ "2" :> 2 @@ "3" :> 3 @@ "4" :> 4 @@
               "5" :> 5 @@ "6" :> 6 @@ "7" :> 7 @@ "8" :> 8 @@ "9" :> 9

is_digit(c) == c \in DOMAIN digit_value

starts_with(s, i, w) ==
    /\ i + Len(w) - 1 <= Len(s)
    /\ \A k \in 1..Len(w) : s[i + k - 1] = w[k]

\* number of consecutive whitespace characters of s from position i on (\s+, greedy)
RECURSIVE space_run(_, _)
space_run(s, i) == IF i <= Len(s) /\ is_space(s[i]) THEN 1 + space_run(s, i + 1) ELSE 0

\* number of consecutive digits of s from position i on (\d+, greedy)
RECURSIVE digit_run(_, _)
digit_run(s, i) == IF i <= Len(s) /\ is_digit(s[i]) THEN 1 + digit_run(s, i + 1) ELSE 0

\* int() of the digits s[i..j]
RECURSIVE int_of(_, _, _)
int_of(s, i, j) == IF j < i THEN 0 ELSE 10 * int_of(s, i, j - 1) + digit_value[s[j]]

\* the group(1) span <<first, last>> of the pattern matched at position i, or <<>>
match_at(s, i) ==
    LET low == lower(s)
        kws == {k \in 1..Len(count_keywords) : starts_with(low, i, chars[count_keywords[k]])}
    IN  IF kws = {} THEN <<>>
        ELSE LET j  == i + Len(chars[count_keywords[Least(kws)]])
                 sp == space_run(s, j)
                 dg == digit_run(s, j + sp)
             IN  IF sp >= 1 /\ dg >= 1 THEN <<j + sp, j + sp + dg - 1>> ELSE <<>>

\* lines 153-156: the integer of the leftmost match, 0 without a match
extract_count(quest_text) ==
    LET at == {i \in 1..Len(quest_text) : match_at(quest_text, i) # <<>>}
    IN  IF at = {} THEN 0
        ELSE LET g == match_at(quest_text, Least(at)) IN int_of(quest_text, g[1], g[2])

\* lines 159-166 with line 165 reading the local gender unconditionally
build_quest_info_reads_gender(quest_text, quest_type, gender, has_region, has_type) ==
    IF gender = Unbound
    THEN [exception |-> "UnboundLocalError"]
    ELSE [text |-> quest_text, type |-> quest_type, region |-> has_region,
          pokemon_type |-> has_type, count |-> extract_count(quest_text),
          gender |-> gender]

\* lines 153-168: the returned dict. Line 165 reads the local gender only when
\* quest_type == 'gender'; reading it while unassigned raises UnboundLocalError.
build_quest_info(quest_text, quest_type, gender, has_region, has_type) ==
    IF quest_type = "gender" /\ gender = Unbound
    THEN [exception |-> "UnboundLocalError"]
    ELSE [text |-> quest_text, type |-> quest_type, region |-> has_region,
          pokemon_type |-> has_type, count |-> extract_count(quest_text),
          gender |-> IF quest_type = "gender" THEN gender ELSE None]

parse_quest(quest_text) ==
    LET quest_text_lower == lower(quest_text)
        kb         == keyword_branch(quest_text_lower)
        has_region == detect_region(quest_text)
        has_type   == detect_type(quest_text, quest_text_lower)
        quest_type == final_quest_type(kb.quest_type, has_region, has_type, quest_text_lower)
    IN  build_quest_info(quest_text, quest_type, kb.gender, has_region, has_type)

(***************************************************************************)
(* is_regional_variant (lines 32-36)                                       *)
(***************************************************************************)
regional_prefixes == <<"alolan", "galarian", "hisuian", "paldean">>

\* lines 34-36 without the lower() of line 35
is_regional_variant_case_sensitive(pokemon_name) ==
    \E i \in 1..Len(regional_prefixes) :
        contains(chars[pokemon_name], chars[regional_prefixes[i]])

is_regional_variant(pokemon_name) ==
    LET name_lower == lower(chars[pokemon_name])
    IN  \E i \in 1..Len(regional_prefixes) : contains(name_lower, chars[regional_prefixes[i]])

(***************************************************************************)
(* load_data (lines 38-75), one step per file opened and per row read      *)
(***************************************************************************)
\* lines 45-52: the dict entry built from one row of pokemondata.csv
species_entry(row) ==
    [name   |-> row.Name,
     type1  |-> row.Type1,
     type2  |-> IF row.Type2 = "" THEN None ELSE row.Type2,
     dex    |-> row.Dex,
     region |-> get_region(row.Dex)]

\* line 46: self.pokemon_data[dex] = {...}; a new key goes last, a key already
\* present keeps its position and takes the new value.
dict_put(d, entry) ==
    IF \E i \in 1..Len(d) : d[i].dex = entry.dex
    THEN [i \in 1..Len(d) |-> IF d[i].dex = entry.dex THEN entry ELSE d[i]]
    ELSE Append(d, entry)

gender_types == <<"male", "female", "genderless">>

(***************************************************************************)
(* find_matching_pokemon (lines 170-244)                                   *)
(***************************************************************************)
\* lines 184, 207 with the list in the opposite order
spawn_priorities_reversed == <<"1/674", "1/337", "1/225">>

\* lines 184, 207
spawn_priorities == <<"1/225", "1/337", "1/674">>

\* any(m['dex'] == dex for m in matches), lines 194, 217
already_matched(m, dex) == \E k \in 1..Len(m) : m[k].dex = dex

\* {**data, 'spawn_rate': self.spawn_rates[dex]}, lines 201, 236-242
with_spawn_rate(data) ==
    [name |-> data.name, type1 |-> data.type1, type2 |-> data.type2, dex |-> data.dex,
     region |-> data.region, spawn_rate |-> spawn_rates[data.dex]]

\* matches[:limit]
slice_to(m, limit) ==
    IF limit >= 0
    THEN SubSeq(m, 1, IF limit < Len(m) THEN limit ELSE Len(m))
    ELSE SubSeq(m, 1, IF Len(m) + limit > 0 THEN Len(m) + limit ELSE 0)

\* line 182: self.gender_data.get(gender, set())
gender_pokemon_of(gender) ==
    IF gender \in DOMAIN gender_data THEN gender_data[gender] ELSE {}

\* line 200
gender_accepts(data, gender_pokemon, priority) ==
    /\ data.name \in gender_pokemon
    /\ data.dex \in DOMAIN spawn_rates
    /\ spawn_rates[data.dex] = priority

\* lines 190-201: the inner loop over self.pokemon_data.items() from position i on
RECURSIVE gender_scan(_, _, _, _, _)
gender_scan(gender_pokemon, priority, limit, i, m) ==
    IF i > Len(pokemon_data) \/ Len(m) >= limit THEN m
    ELSE LET data == pokemon_data[i]
         IN  IF already_matched(m, data.dex) THEN gender_scan(gender_pokemon, priority, limit, i + 1, m)
             ELSE IF is_regional_variant(data.name) THEN gender_scan(gender_pokemon, priority, limit, i + 1, m)
             ELSE IF gender_accepts(data, gender_pokemon, priority)
                  THEN gender_scan(gender_pokemon, priority, limit, i + 1, Append(m, with_spawn_rate(data)))
                  ELSE gender_scan(gender_pokemon, priority, limit, i + 1, m)

\* lines 186-201: the outer loop over spawn_priorities from position p on
RECURSIVE gender_tiers(_, _, _, _)
gender_tiers(gender_pokemon, limit, p, m) ==
    IF p > Len(spawn_priorities) \/ Len(m) >= limit THEN m
    ELSE gender_tiers(gender_pokemon, limit, p + 1,
                      gender_scan(gender_pokemon, spawn_priorities[p], limit, 1, m))

\* lines 226-242 with the type test dropped from the both-constraints branch
criteria_accept_region_only(quest_info, data) ==
    LET region_match == quest_info.region = None \/ data.region = quest_info.region
        type_match   == quest_info.pokemon_type = None
                        \/ data.type1 = quest_info.pokemon_type
                        \/ data.type2 = quest_info.pokemon_type
    IN  IF quest_info.region # None /\ quest_info.pokemon_type # None THEN region_match
        ELSE IF quest_info.pokemon_type # None THEN type_match
        ELSE IF quest_info.region # None THEN region_match
        ELSE FALSE

\* lines 226-242: whether the if/elif/elif chain appends the species. The chain
\* has no final else: with neither constraint set nothing is appended.
criteria_accept(quest_info, data) ==
    LET region_match == quest_info.region = None \/ data.region = quest_info.region
        type_match   == quest_info.pokemon_type = None
                        \/ data.type1 = quest_info.pokemon_type
                        \/ data.type2 = quest_info.pokemon_type
    IN  IF quest_info.region # None /\ quest_info.pokemon_type # None
        THEN region_match /\ type_match
        ELSE IF quest_info.pokemon_type # None THEN type_match
        ELSE IF quest_info.region # None THEN region_match
        ELSE FALSE

\* lines 223-224 with the comparison against the current tier dropped
tier_is_any_entry(data, priority) == data.dex \in DOMAIN spawn_rates

\* lines 223-224
tier_is(data, priority) ==
    data.dex \in DOMAIN spawn_rates /\ spawn_rates[data.dex] = priority

\* lines 213-242: the inner loop from position i on
RECURSIVE type_region_scan(_, _, _, _, _)
type_region_scan(quest_info, priority, limit, i, m) ==
    IF i > Len(pokemon_data) \/ Len(m) >= limit THEN m
    ELSE LET data == pokemon_data[i]
         IN  IF already_matched(m, data.dex) THEN type_region_scan(quest_info, priority, limit, i + 1, m)
             ELSE IF is_regional_variant(data.name) THEN type_region_scan(quest_info, priority, limit, i + 1, m)
             ELSE IF ~tier_is(data, priority) THEN type_region_scan(quest_info, priority, limit, i + 1, m)
             ELSE IF criteria_accept(quest_info, data)
                  THEN type_region_scan(quest_info, priority, limit, i + 1, Append(m, with_spawn_rate(data)))
                  ELSE type_region_scan(quest_info, priority, limit, i + 1, m)

\* lines 209-242: the outer loop from position p on
RECURSIVE type_region_tiers(_, _, _, _)
type_region_tiers(quest_info, limit, p, m) ==
    IF p > Len(spawn_priorities) \/ Len(m) >= limit THEN m
    ELSE type_region_tiers(quest_info, limit, p + 1,
                           type_region_scan(quest_info, spawn_priorities[p], limit, 1, m))

find_matching_pokemon(quest_info, limit) ==
    IF quest_info.type \in {"breed", "release", "generic_catch", "unknown"} THEN <<>>
    ELSE IF quest_info.type = "gender"
    THEN slice_to(gender_tiers(gender_pokemon_of(quest_info.gender), limit, 1, <<>>), limit)
    ELSE IF quest_info.type = "type_region"
    THEN slice_to(type_region_tiers(quest_info, limit, 1, <<>>), limit)
    ELSE slice_to(<<>>, limit)

(***************************************************************************)
(* Specifications                                                          *)
(***************************************************************************)
\* ---- on_message events
MaxIds == 2
MaxDeliveries == 3

\* line 408: the size above which processed_messages is cut back
PROCESSED_CAP == 100

\* line 28
AUTO_SUGGEST_CHANNEL_ID == "1429692867022164018"

\* ids of the messages delivered to on_message
MessageIds == 1..MaxIds

\* ids of n quest messages handled earlier and not delivered again
EarlierIds(n) == {1000 + k : k \in 1..n}

NoEvent == [id |-> 0, was_member |-> FALSE, called |-> FALSE]

MessagesIdle ==
    /\ processed_messages = {}
    /\ in_flight = [id \in MessageIds |-> 0]
    /\ handled = NoEvent
    /\ delivered = 0

\* fm_quest when no call of find_matching_pokemon is in progress
NoQuest == [type |-> None, region |-> None, pokemon_type |-> None, gender |-> None]

EngineIdle ==
    /\ pc = "idle" /\ pokemon_data = <<>> /\ spawn_rates = <<>>
    /\ gender_data = [g \in {"male", "female", "genderless"} |-> {}]
    /\ gender_idx = 0 /\ load_failed = FALSE
    /\ fm_quest = NoQuest /\ fm_limit = 0 /\ fm_result = <<>>

ParseIdle == pq_pc = "idle" /\ pq_text = <<>> /\ pq_result = None

RegionIdle == gr_pc = "idle" /\ gr_dex = 0 /\ gr_result = None

\* ---- the cog: __init__ runs load_data, then find_matching_pokemon is called
MaxSpecies == 2
MaxLimit == 2

\* rows pokemondata.csv may hold
SpeciesRows ==
    {[Dex |-> 138, Name |-> "Omanyte",        Type1 |-> "Rock",     Type2 |-> "Water"],
     [Dex |-> 158, Name |-> "Totodile",       Type1 |-> "Water",    Type2 |-> ""],
     [Dex |-> 4,   Name |-> "Charmander",     Type1 |-> "Fire",     Type2 |-> ""],
     [Dex |-> 128, Name |-> "Paldean Tauros", Type1 |-> "Fighting", Type2 |-> "Water"]}

\* values the Chance column of spawnrates.csv may hold
Chances == {"1/225", "1/337", "1/674", "1/112"}

\* the stripped names each gender file holds when it exists
GenderFile ==
    [male       |-> {"Charmander", "Totodile", "Paldean Tauros"},
     female     |-> {"Omanyte", "Totodile", "Paldean Tauros"},
     genderless |-> {"Omanyte", "Staryu"}]

\* descriptors find_matching_pokemon is called with
Descriptors ==
    {[type |-> t, region |-> None, pokemon_type |-> None, gender |-> None] :
        t \in {"breed", "release", "generic_catch", "unknown"}}
    \cup {[type |-> "gender", region |-> None, pokemon_type |-> None, gender |-> g] :
        g \in {"male", "female", "genderless"}}
    \cup {[type |-> "type_region", region |-> r, pokemon_type |-> t, gender |-> None] :
        r \in {None, "Kanto"}, t \in {None, "Water"}}

\* lines 25-30: __init__ up to the call of load_data
Init ==
    /\ pc = "load_species"
    /\ pokemon_data = <<>>
    /\ spawn_rates = <<>>
    /\ gender_data = [g \in {"male", "female", "genderless"} |-> {}]
    /\ gender_idx = 0
    /\ load_failed = FALSE
    /\ fm_quest = NoQuest /\ fm_limit = 0 /\ fm_result = <<>>
    /\ ParseIdle /\ RegionIdle /\ MessagesIdle

\* lines 74-75: the outer `except Exception` prints the error; load_data and
\* __init__ return normally, with the tables as filled so far.
outer_except ==
    /\ load_failed' = TRUE
    /\ pc' = "ready"

\* line 42: open('pokemondata.csv') raises FileNotFoundError
SpeciesFileMissing ==
    /\ pc = "load_species" /\ pokemon_data = <<>>
    /\ outer_except
    /\ UNCHANGED <<pokemon_data, spawn_rates, gender_data, gender_idx,
                   fm_quest, fm_limit, fm_result, parseVars, regionVars, messageVars>>

\* lines 44-52: one row of pokemondata.csv
ReadSpeciesRow ==
    /\ pc = "load_species"
    /\ \E row \in SpeciesRows :
        /\ Len(dict_put(pokemon_data, species_entry(row))) <= MaxSpecies
        /\ pokemon_data' = dict_put(pokemon_data, species_entry(row))
    /\ UNCHANGED <<pc, spawn_rates, gender_data, gender_idx, load_failed,
                   fm_quest, fm_limit, fm_result, parseVars, regionVars, messageVars>>

\* end of pokemondata.csv
SpeciesEOF ==
    /\ pc = "load_species"
    /\ pc' = "load_spawn"
    /\ UNCHANGED <<pokemon_data, spawn_rates, gender_data, gender_idx, load_failed,
                   fm_quest, fm_limit, fm_result, parseVars, regionVars, messageVars>>

\* line 55: open('spawnrates.csv') raises FileNotFoundError
SpawnFileMissing ==
    /\ pc = "load_spawn" /\ spawn_rates = <<>>
    /\ outer_except
    /\ UNCHANGED <<pokemon_data, spawn_rates, gender_data, gender_idx,
                   fm_quest, fm_limit, fm_result, parseVars, regionVars, messageVars>>

\* lines 57-59: one row of spawnrates.csv (rows of species the table holds)
ReadSpawnRow ==
    /\ pc = "load_spawn"
    /\ \E i \in 1..Len(pokemon_data), chance \in Chances :
        spawn_rates' = [d \in DOMAIN spawn_rates \cup {pokemon_data[i].dex} |->
                            IF d = pokemon_data[i].dex THEN chance ELSE spawn_rates[d]]
    /\ UNCHANGED <<pc, pokemon_data, gender_data, gender_idx, load_failed,
                   fm_quest, fm_limit, fm_result, parseVars, regionVars, messageVars>>

\* end of spawnrates.csv; line 62 starts the loop over the gender files
SpawnEOF ==
    /\ pc = "load_spawn"
    /\ pc' = "load_gender"
    /\ gender_idx' = 1
    /\ UNCHANGED <<pokemon_data, spawn_rates, gender_data, load_failed,
                   fm_quest, fm_limit, fm_result, parseVars, regionVars, messageVars>>

\* lines 62, 72-73: next gender file, or the end of load_data after the last
gender_loop_next ==
    /\ gender_idx' = gender_idx + 1
    /\ pc' = IF gender_idx = Len(gender_types) THEN "ready" ELSE "load_gender"

\* lines 69-70: the file is missing; the inner except prints a warning
GenderFileMissing ==
    /\ pc = "load_gender"
    /\ gender_loop_next
    /\ UNCHANGED <<pokemon_data, spawn_rates, gender_data, load_failed,
                   fm_quest, fm_limit, fm_result, parseVars, regionVars, messageVars>>

\* lines 64-68: every row's stripped name is added to the gender's set
ReadGenderFile ==
    /\ pc = "load_gender"
    /\ gender_data' = [gender_data EXCEPT ![gender_types[gender_idx]] =
                            @ \cup GenderFile[gender_types[gender_idx]]]
    /\ gender_loop_next
    /\ UNCHANGED <<pokemon_data, spawn_rates, load_failed,
                   fm_quest, fm_limit, fm_result, parseVars, regionVars, messageVars>>

\* a caller (process_quest_embed, line 314) calls find_matching_pokemon
FindMatching ==
    /\ pc = "ready"
    /\ \E quest_info \in Descriptors, limit \in 0..MaxLimit :
        /\ fm_quest' = quest_info
        /\ fm_limit' = limit
        /\ fm_result' = find_matching_pokemon(quest_info, limit)
    /\ pc' = "called"
    /\ UNCHANGED <<pokemon_data, spawn_rates, gender_data, gender_idx, load_failed,
                   parseVars, regionVars, messageVars>>

\* the caller has consumed the list and the cog waits for the next request
Return ==
    /\ pc = "called"
    /\ pc' = "ready"
    /\ fm_quest' = NoQuest /\ fm_limit' = 0 /\ fm_result' = <<>>
    /\ UNCHANGED <<pokemon_data, spawn_rates, gender_data, gender_idx, load_failed,
                   parseVars, regionVars, messageVars>>

Next ==
    \/ SpeciesFileMissing \/ ReadSpeciesRow \/ SpeciesEOF
    \/ SpawnFileMissing \/ ReadSpawnRow \/ SpawnEOF
    \/ GenderFileMissing \/ ReadGenderFile
    \/ FindMatching \/ Return

Spec == Init /\ [][Next]_vars

\* ---- find_matching_pokemon called on loaded tables: every table load_data
\* can build from SpeciesRows and Chances, with the gender files all present
\* or all missing
RECURSIVE distinct_dex(_)
distinct_dex(d) ==
    \/ d = <<>>
    \/ /\ \A i \in 2..Len(d) : d[i].dex # d[1].dex
       /\ distinct_dex(Tail(d))

LoadedSpecies ==
    {d \in UNION {[1..n -> {species_entry(row) : row \in SpeciesRows}] : n \in 0..MaxSpecies} :
        distinct_dex(d)}

LoadedSpawnRates(d) ==
    UNION {[D -> Chances] : D \in SUBSET {d[i].dex : i \in 1..Len(d)}}

LoadedGender ==
    {[g \in {"male", "female", "genderless"} |-> GenderFile[g]],
     [g \in {"male", "female", "genderless"} |-> {}]}

InitMatch ==
    /\ pc = "ready"
    /\ pokemon_data \in LoadedSpecies
    /\ spawn_rates \in LoadedSpawnRates(pokemon_data)
    /\ gender_data \in LoadedGender
    /\ gender_idx = Len(gender_types) + 1
    /\ load_failed = FALSE
    /\ fm_quest = NoQuest /\ fm_limit = 0 /\ fm_result = <<>>
    /\ ParseIdle /\ RegionIdle /\ MessagesIdle

NextMatch == FindMatching \/ Return

SpecMatch == InitMatch /\ [][NextMatch]_vars

\* ---- on_message: message events are delivered to the cog, which has
\* handled between 0 and PROCESSED_CAP quest messages before
InitMessages ==
    /\ processed_messages \in {EarlierIds(n) : n \in 0..PROCESSED_CAP}
    /\ in_flight = [id \in MessageIds |-> 0]
    /\ handled = NoEvent
    /\ delivered = 0
    /\ EngineIdle /\ ParseIdle /\ RegionIdle

\* lines 408-409: set(list(s)[-100:]) keeps 100 elements of s in the set's
\* iteration order. A set does not keep insertion order, so which element goes
\* is any element of s, the id just added included (s holds at most 101 ids:
\* one id is added to a set of at most 100). The earlier ids are not delivered
\* again, so one of them, the largest, stands for the choice of any of them.
trim(s) ==
    IF Cardinality(s) > PROCESSED_CAP
    THEN LET earlier == s \ MessageIds
             dropped == (s \cap MessageIds)
                        \cup {x \in earlier : \A y \in earlier : y <= x}
         IN  {s \ {x} : x \in dropped}
    ELSE {s}

\* lines 399-400: the message is in another channel
OnMessageOtherChannel ==
    /\ delivered < MaxDeliveries
    /\ \E id \in MessageIds, channel \in {"1"} :
        /\ channel # AUTO_SUGGEST_CHANNEL_ID
        /\ handled' = [id |-> id, was_member |-> id \in processed_messages, called |-> FALSE]
    /\ delivered' = delivered + 1
    /\ UNCHANGED <<processed_messages, in_flight, engineVars, parseVars, regionVars>>

\* lines 402-403: the id is in processed_messages
OnMessageDuplicate ==
    /\ delivered < MaxDeliveries
    /\ \E id \in MessageIds :
        /\ id \in processed_messages
        /\ handled' = [id |-> id, was_member |-> TRUE, called |-> FALSE]
    /\ delivered' = delivered + 1
    /\ UNCHANGED <<processed_messages, in_flight, engineVars, parseVars, regionVars>>

\* line 405 is false: no embed, or the first embed is no quest embed
OnMessageNoQuestEmbed ==
    /\ delivered < MaxDeliveries
    /\ \E id \in MessageIds :
        /\ id \notin processed_messages
        /\ handled' = [id |-> id, was_member |-> FALSE, called |-> FALSE]
    /\ delivered' = delivered + 1
    /\ UNCHANGED <<processed_messages, in_flight, engineVars, parseVars, regionVars>>

\* lines 405-411: the id is added, the set is cut back, and the handler
\* suspends in process_quest_embed (no await comes before line 411)
OnMessageQuestEmbed ==
    /\ delivered < MaxDeliveries
    /\ \E id \in MessageIds :
        /\ id \notin processed_messages
        /\ processed_messages' \in trim(processed_messages \cup {id})
        /\ in_flight' = [in_flight EXCEPT ![id] = @ + 1]
        /\ handled' = [id |-> id, was_member |-> FALSE, called |-> TRUE]
    /\ delivered' = delivered + 1
    /\ UNCHANGED <<engineVars, parseVars, regionVars>>

\* line 411: an awaited process_quest_embed call ends and on_message returns
ProcessQuestEmbedDone ==
    /\ \E id \in MessageIds :
        /\ in_flight[id] > 0
        /\ in_flight' = [in_flight EXCEPT ![id] = @ - 1]
    /\ UNCHANGED <<processed_messages, handled, delivered, engineVars, parseVars, regionVars>>

NextMessages ==
    \/ OnMessageOtherChannel \/ OnMessageDuplicate \/ OnMessageNoQuestEmbed
    \/ OnMessageQuestEmbed \/ ProcessQuestEmbedDone

SpecMessages == InitMessages /\ [][NextMessages]_vars

\* ---- get_region called on every dex of a range around the nine regions
MaxDex == 1030

InitRegion ==
    /\ gr_pc = "start" /\ gr_dex \in (0 - MaxDex)..MaxDex /\ gr_result = None
    /\ EngineIdle /\ ParseIdle /\ MessagesIdle

GetRegion ==
    /\ gr_pc = "start"
    /\ gr_result' = get_region(gr_dex)
    /\ gr_pc' = "done"
    /\ UNCHANGED <<gr_dex, engineVars, parseVars, messageVars>>

NextRegion == GetRegion

SpecRegion == InitRegion /\ [][NextRegion]_vars

\* ---- parse_quest called on every line built from at most MaxTokens fragments
MaxTokens == 3

Fragments == {"Catch ", "breed ", "Release ", "10 ", "Female ", "Male ",
              "Genderless ", "unknown gender ", "Kanto ", "Johto ", "kanto ",
              "Water-type ", "fire "}

RECURSIVE Concat(_)
Concat(fs) == IF fs = <<>> THEN <<>> ELSE chars[Head(fs)] \o Concat(Tail(fs))

Lines == {Concat(fs) : fs \in UNION {[1..n -> Fragments] : n \in 0..MaxTokens}}

InitParse ==
    /\ pq_pc = "start" /\ pq_text \in Lines /\ pq_result = None
    /\ EngineIdle /\ RegionIdle /\ MessagesIdle

ParseQuest ==
    /\ pq_pc = "start"
    /\ pq_result' = parse_quest(pq_text)
    /\ pq_pc' = "done"
    /\ UNCHANGED <<pq_text, engineVars, regionVars, messageVars>>

NextParse == ParseQuest

SpecParse == InitParse /\ [][NextParse]_vars

(***************************************************************************)
(* Properties of find_matching_pokemon, checked under SpecMatch            *)
(***************************************************************************)
\* the three priority tiers, rarest first, as the specification lists them
PriorityTiers == <<"1/225", "1/337", "1/674">>

TierRank(tier) == CHOOSE r \in 1..Len(PriorityTiers) : PriorityTiers[r] = tier

\* position of the species with this dex in the species table's load order
TablePos(dex) == CHOOSE i \in 1..Len(pokemon_data) : pokemon_data[i].dex = dex

Returned == {fm_result[k] : k \in 1..Len(fm_result)}

\* the name carries one of the four markers, in any letter case, anywhere
CarriesVariantMarker(name) ==
    LET folded == lower(chars[name])
    IN  \E marker \in {"alolan", "galarian", "hisuian", "paldean"} :
            \E i \in 1..Len(folded) : starts_with(folded, i, chars[marker])

\* the species is in a priority tier and carries no marker
TierEligible(data) ==
    /\ data.dex \in DOMAIN spawn_rates
    /\ \E r \in 1..Len(PriorityTiers) : spawn_rates[data.dex] = PriorityTiers[r]
    /\ ~CarriesVariantMarker(data.name)

\* what the descriptor asks of a tier-eligible species
Satisfies(quest_info, data) ==
    IF quest_info.type = "gender"
    THEN data.name \in gender_pokemon_of(quest_info.gender)
    ELSE criteria_accept(quest_info, data)

\* table positions of the tier-eligible species the descriptor accepts
Accepted(quest_info) ==
    {i \in 1..Len(pokemon_data) :
        Satisfies(quest_info, pokemon_data[i]) /\ TierEligible(pokemon_data[i])}

\* the species at the positions S that are in one tier, in table order
RECURSIVE TierPass(_, _, _)
TierPass(S, tier, i) ==
    IF i > Len(pokemon_data) THEN <<>>
    ELSE IF i \in S /\ spawn_rates[pokemon_data[i].dex] = tier
         THEN <<with_spawn_rate(pokemon_data[i])>> \o TierPass(S, tier, i + 1)
         ELSE TierPass(S, tier, i + 1)

\* the tier-major traversal: tier 1/225 in table order, then 1/337, then 1/674
TierMajor(S) ==
    TierPass(S, PriorityTiers[1], 1) \o TierPass(S, PriorityTiers[2], 1)
        \o TierPass(S, PriorityTiers[3], 1)

FirstN(sq, n) == SubSeq(sq, 1, IF n < Len(sq) THEN n ELSE Len(sq))

\* C1: at most `limit` entries are returned, and every returned species has a
\* spawn-rate entry that is one of 1/225, 1/337, 1/674, whatever the descriptor.
C1_AtMostLimitAndPriorityTiers ==
    pc = "called" =>
        /\ Len(fm_result) <= fm_limit
        /\ \A k \in 1..Len(fm_result) :
            /\ fm_result[k].spawn_rate \in {"1/225", "1/337", "1/674"}
            /\ fm_result[k].dex \in DOMAIN spawn_rates
            /\ spawn_rates[fm_result[k].dex] = fm_result[k].spawn_rate

\* a call cut short by the limit, on a table that also holds a species of
\* another tier which the descriptor would otherwise take
C1_Witness ==
    /\ pc = "called"
    /\ fm_limit = 1
    /\ Len(fm_result) = 1
    /\ \E i \in 1..Len(pokemon_data) :
        /\ pokemon_data[i].dex \in DOMAIN spawn_rates
        /\ spawn_rates[pokemon_data[i].dex] = "1/112"
        /\ ~CarriesVariantMarker(pokemon_data[i].name)
        /\ Satisfies(fm_quest, pokemon_data[i])

\* C2: for a gender or type_region descriptor the result is tier-major (rarer
\* tier first, table order within a tier) and is exactly the first `limit`
\* accepted species of the tier-major traversal.
C2_TierMajorPrefix ==
    (pc = "called" /\ fm_quest.type \in {"gender", "type_region"}) =>
        /\ \A a, b \in 1..Len(fm_result) :
            a < b =>
                \/ TierRank(fm_result[a].spawn_rate) < TierRank(fm_result[b].spawn_rate)
                \/ /\ fm_result[a].spawn_rate = fm_result[b].spawn_rate
                   /\ TablePos(fm_result[a].dex) < TablePos(fm_result[b].dex)
        /\ fm_result = FirstN(TierMajor(Accepted(fm_quest)), fm_limit)

\* two entries returned against table order (the rarer one is later in the table)
C2_Witness ==
    /\ pc = "called"
    /\ Len(fm_result) = 2
    /\ TablePos(fm_result[1].dex) > TablePos(fm_result[2].dex)

\* C4: no returned species carries a regional-variant marker.
C4_NoRegionalVariant ==
    pc = "called" => \A k \in 1..Len(fm_result) : ~CarriesVariantMarker(fm_result[k].name)

\* a variant in the rarest tier that satisfies the descriptor is passed over
\* although the limit was not reached
C4_Witness ==
    /\ pc = "called"
    /\ Len(fm_result) < fm_limit
    /\ \E i \in 1..Len(pokemon_data) :
        /\ CarriesVariantMarker(pokemon_data[i].name)
        /\ pokemon_data[i].dex \in DOMAIN spawn_rates
        /\ spawn_rates[pokemon_data[i].dex] = "1/225"
        /\ Satisfies(fm_quest, pokemon_data[i])

\* the descriptor with its region constraint dropped
TypeOnly(quest_info) == [quest_info EXCEPT !.region = None]

BothSet(quest_info) ==
    /\ quest_info.type = "type_region"
    /\ quest_info.region # None
    /\ quest_info.pokemon_type # None

HasBoth(quest_info, data) ==
    /\ data.region = quest_info.region
    /\ data.type1 = quest_info.pokemon_type \/ data.type2 = quest_info.pokemon_type

SetOf(sq) == {sq[k] : k \in 1..Len(sq)}

\* C3 as stated: with region R and type T both set, only species of region R
\* and type T are returned, and the result of the type-only descriptor at the
\* same limit is a superset.
C3_SupersetAtSameLimit ==
    (pc = "called" /\ BothSet(fm_quest)) =>
        /\ \A k \in 1..Len(fm_result) : HasBoth(fm_quest, fm_result[k])
        /\ Returned \subseteq SetOf(find_matching_pokemon(TypeOnly(fm_quest), fm_limit))

\* C3 amended: with both set, only species of region R and type T are
\* returned; the type-only result is a superset when it is computed with a
\* limit that holds every species of the table, and at the same limit whenever
\* at most `limit` species match the type-only descriptor.
C3_SupersetWhenNotTruncated ==
    (pc = "called" /\ BothSet(fm_quest)) =>
        LET every == find_matching_pokemon(TypeOnly(fm_quest), Len(pokemon_data))
        IN  /\ \A k \in 1..Len(fm_result) : HasBoth(fm_quest, fm_result[k])
            /\ Returned \subseteq SetOf(every)
            /\ Len(every) <= fm_limit =>
                  Returned \subseteq SetOf(find_matching_pokemon(TypeOnly(fm_quest), fm_limit))

\* both constraints set, a species returned, and the type-only result at the
\* same limit holds it and one more species
C3_Witness ==
    /\ pc = "called"
    /\ BothSet(fm_quest)
    /\ Len(fm_result) = 1
    /\ Len(find_matching_pokemon(TypeOnly(fm_quest), fm_limit)) = 2
    /\ Returned \subseteq SetOf(find_matching_pokemon(TypeOnly(fm_quest), fm_limit))
    /\ \E i \in 1..Len(pokemon_data) :
        /\ TierEligible(pokemon_data[i])
        /\ ~HasBoth(fm_quest, pokemon_data[i])

\* C10: a type_region descriptor with neither region nor type set returns the
\* first `limit` tier-eligible species of the tier-major traversal.
C10_NoConstraintAcceptsAnyEligible ==
    (/\ pc = "called"
     /\ fm_quest.type = "type_region"
     /\ fm_quest.region = None
     /\ fm_quest.pokemon_type = None) =>
        fm_result = FirstN(TierMajor({i \in 1..Len(pokemon_data) : TierEligible(pokemon_data[i])}),
                           fm_limit)

(***************************************************************************)
(* Properties of parse_quest, checked under SpecParse                      *)
(***************************************************************************)
Categories == {"breed", "release", "gender", "type_region", "generic_catch", "unknown"}

Returns == pq_pc = "done" /\ "exception" \notin DOMAIN pq_result

\* the line, given with its letters folded to lower case, holds the word
Mentions(folded, word) == \E i \in 1..Len(folded) : starts_with(folded, i, chars[word])

\* the category and gender the precedence list gives, first match first
ByPrecedence(text) ==
    LET f == lower(text)
    IN  CASE Mentions(f, "breed") -> <<"breed", None>>
          [] ~Mentions(f, "breed") /\ Mentions(f, "release") -> <<"release", None>>
          [] ~Mentions(f, "breed") /\ ~Mentions(f, "release") /\ Mentions(f, "female")
                -> <<"gender", "female">>
          [] ~Mentions(f, "breed") /\ ~Mentions(f, "release") /\ ~Mentions(f, "female")
                /\ Mentions(f, "male")
                -> <<"gender", "male">>
          [] ~Mentions(f, "breed") /\ ~Mentions(f, "release") /\ ~Mentions(f, "male")
                /\ (Mentions(f, "unknown gender") \/ Mentions(f, "genderless"))
                -> <<"gender", "genderless">>
          [] OTHER ->
                IF detect_region(text) # None \/ detect_type(text, f) # None
                THEN <<"type_region", None>>
                ELSE IF Mentions(f, "catch") THEN <<"generic_catch", None>>
                ELSE <<"unknown", None>>

\* the line holds one of the gender keywords ('female' holds 'male')
GenderWord(folded) ==
    \/ Mentions(folded, "male")
    \/ Mentions(folded, "unknown gender")
    \/ Mentions(folded, "genderless")

\* C5: the returned descriptor never has a gender together with a region or a
\* pokemon_type: for category gender both are None.
C5_GenderExcludesRegionAndType ==
    Returns =>
        /\ ~(pq_result.gender # None
             /\ (pq_result.region # None \/ pq_result.pokemon_type # None))
        /\ pq_result.type = "gender" =>
              (pq_result.region = None /\ pq_result.pokemon_type = None)

\* C6: the category and the gender are those of the first matching rule of the
\* precedence list; a line with a gender word and a region or type name and
\* neither 'breed' nor 'release' is gender, not type_region; gender is set
\* exactly when the category is gender.
C6_FirstMatchPrecedence ==
    pq_pc = "done" =>
        /\ Returns
        /\ <<pq_result.type, pq_result.gender>> = ByPrecedence(pq_text)
        /\ LET f == lower(pq_text)
           IN  (/\ GenderWord(f)
                /\ pq_result.region # None \/ pq_result.pokemon_type # None
                /\ ~Mentions(f, "breed") /\ ~Mentions(f, "release"))
                  => pq_result.type = "gender"
        /\ pq_result.gender # None <=> pq_result.type = "gender"

\* a line naming a gender and a region, classified gender/female
C6_Witness ==
    /\ Returns
    /\ Mentions(lower(pq_text), "female")
    /\ contains(pq_text, chars["Kanto"])
    /\ pq_result.type = "gender"
    /\ pq_result.gender = "female"

\* the line holds Catch, Release or Breed (any letter case), then at least one
\* whitespace character, then a digit
HasCountPattern(text) ==
    LET f == lower(text)
    IN  \E word \in {"catch", "release", "breed"} :
            \E i \in 1..Len(text) :
                /\ starts_with(f, i, chars[word])
                /\ \E j \in (i + Len(chars[word]) + 1)..Len(text) :
                    /\ is_digit(text[j])
                    /\ \A k \in (i + Len(chars[word]))..(j - 1) : is_space(text[k])

RegionRanges ==
    <<[lo |-> 1,   hi |-> 151,  region |-> "Kanto"],
      [lo |-> 152, hi |-> 251,  region |-> "Johto"],
      [lo |-> 252, hi |-> 386,  region |-> "Hoenn"],
      [lo |-> 387, hi |-> 493,  region |-> "Sinnoh"],
      [lo |-> 494, hi |-> 649,  region |-> "Unova"],
      [lo |-> 650, hi |-> 721,  region |-> "Kalos"],
      [lo |-> 722, hi |-> 809,  region |-> "Alola"],
      [lo |-> 810, hi |-> 905,  region |-> "Galar"],
      [lo |-> 906, hi |-> 1025, region |-> "Paldea"]>>

RangesHolding(d) == {r \in 1..Len(RegionRanges) : RegionRanges[r].lo <= d /\ d <= RegionRanges[r].hi}

\* C9: get_region(d) is the region of the one range holding d, and 'Unknown'
\* for d <= 0 and d >= 1026, where no range holds d.
C9_RegionOfUniqueRange ==
    gr_pc = "done" =>
        IF 1 <= gr_dex /\ gr_dex <= 1025
        THEN /\ Cardinality(RangesHolding(gr_dex)) = 1
             /\ \A r \in RangesHolding(gr_dex) : gr_result = RegionRanges[r].region
        ELSE /\ RangesHolding(gr_dex) = {}
             /\ gr_result = "Unknown"

\* the lower boundary of the second range
C9_Witness == gr_pc = "done" /\ gr_dex = 152 /\ gr_result = "Johto"

(***************************************************************************)
(* Properties of startup, checked under Spec                               *)
(***************************************************************************)
\* C7: a missing species or spawn-rate table is fatal: after a failed load the
\* cog never becomes ready (the failure leaves __init__ as an exception), and
\* no match request is served with an empty species or spawn-rate table.
C7_MissingCoreTableIsFatal ==
    /\ load_failed => pc \notin {"ready", "called"}
    /\ pc = "called" => (pokemon_data # <<>> /\ spawn_rates # <<>>)

(***************************************************************************)
(* Properties of on_message, checked under SpecMessages                    *)
(***************************************************************************)
\* processed_messages holds at most 100 ids whenever on_message yields or returns
C11_AtMostCap == Cardinality(processed_messages) <= 100

\* process_quest_embed is not called for an id that was in processed_messages
\* when its event was handled
C11_NoCallForMember == handled.called => ~handled.was_member

\* no id has two deliveries that both passed the check and are both in
\* process_quest_embed
C11_NoTwoInterleavedPass == \A id \in MessageIds : in_flight[id] <= 1

\* C11: processed_messages holds at most 100 ids whenever on_message yields or
\* returns; process_quest_embed is never called for an id that is in
\* processed_messages when its event is handled; and two interleaved
\* deliveries of the same id never both pass the membership check.
C11_BoundedAndDeduplicated ==
    /\ C11_AtMostCap
    /\ C11_NoCallForMember
    /\ C11_NoTwoInterleavedPass

====
